---------------------------- MODULE Spec2Model ----------------------------
(***************************************************************************)
(* Model of File-Searcher-NET (src/app.py): the elapsed-time formatter     *)
(* czytelny_czas, the directory search przeszukaj_katalog, and the two     *)
(* HTTP handlers search_files (POST /search) and search_uploaded_files     *)
(* (POST /search-uploaded).                                                *)
(*                                                                         *)
(* Text (file names, extensions, phrases, lines) is a sequence of          *)
(* one-character strings.  A path is a record [dir, file]: the directory   *)
(* as a sequence of components and the file name.                          *)
(***************************************************************************)
EXTENDS Integers, Sequences, FiniteSets, TLC

VARIABLES
    endpoint,     \* which entry point is running
    request,      \* the request body / form fields of the HTTP request
    tree,         \* files under the server directory DirPath (read-only)
    tempdirs,     \* temporary directories present on disk
    temp_dir,     \* <<name>> once this request's TemporaryDirectory is created
    tempfiles,    \* file entries present in this request's temp_dir
    outside,      \* files an upload wrote outside temp_dir
    i,            \* number of uploads already handled by the staging loop
    args,         \* arguments of the running przeszukaj_katalog call
    todo,         \* files os.walk has still to yield
    znalezione,   \* przeszukaj_katalog's accumulator
    opened,       \* paths przeszukaj_katalog has passed to open()
    entered,      \* number of times przeszukaj_katalog was entered
    exc,          \* the exception in flight: [type, detail]
    wyniki,       \* the handler's result list
    response,     \* what the caller receives: [status, detail, wyniki, ...]
    sekundy,      \* elapsed time handed to czytelny_czas, in 1/Frac seconds
    czas,         \* the string czytelny_czas returned
    pc            \* position in the running code

vars == << endpoint, request, tree, tempdirs, temp_dir, tempfiles, outside,
           i, args, todo, znalezione, opened, entered, exc, wyniki,
           response, sekundy, czas, pc >>

(***************************************************************************)
(* Bounds of the model.                                                    *)
(***************************************************************************)
MaxSekundy == 3730      \* longest elapsed time, in whole seconds
Frac == 10              \* sub-second resolution: ticks per second
MaxFiles == 2           \* files in the server directory tree
MaxLines == 2           \* lines of a file whose content is enumerated
MaxUploads == 2         \* uploaded files in one request

(***************************************************************************)
(* Text helpers: Python str methods used by the code.                      *)
(***************************************************************************)
Whitespace == {" ", "\n", "\t"}

\* str.endswith(suffix)
endswith(s, suffix) ==
    /\ Len(suffix) <= Len(s)
    /\ SubSeq(s, Len(s) - Len(suffix) + 1, Len(s)) = suffix

\* the `in` operator on str: literal, case-sensitive substring containment
contains(sub, s) ==
    \E k \in 1..(Len(s) - Len(sub) + 1) : SubSeq(s, k, k + Len(sub) - 1) = sub

RECURSIVE lstrip(_)
lstrip(s) ==
    IF s # <<>> /\ Head(s) \in Whitespace THEN lstrip(Tail(s)) ELSE s

RECURSIVE rstrip(_)
rstrip(s) ==
    IF s # <<>> /\ s[Len(s)] \in Whitespace
    THEN rstrip(SubSeq(s, 1, Len(s) - 1))
    ELSE s

\* str.strip()
strip(s) == rstrip(lstrip(s))

\* decimal rendering of a non-negative int inside an f-string
Digit(d) == <<"0", "1", "2", "3", "4", "5", "6", "7", "8", "9">>[d + 1]

RECURSIVE str_int(_)
str_int(n) ==
    IF n < 10 THEN << Digit(n) >> ELSE Append(str_int(n \div 10), Digit(n % 10))

(***************************************************************************)
(* czytelny_czas                                                           *)
(***************************************************************************)
\* int(sekundy): truncation toward zero of a non-negative float
int_sekundy_round(t) == (t + (Frac \div 2)) \div Frac

int_sekundy(t) == t \div Frac

\* divmod(a, b) as <<quotient, remainder>>
divmod(a, b) == << a \div b, a % b >>

czytelny_czas(t) ==
    LET d1 == divmod(int_sekundy(t), 60)
        d2 == divmod(d1[1], 60)
        sek == d1[2]
        godziny == d2[1]
        minuty == d2[2]
    IN  IF godziny > 0
        THEN str_int(godziny) \o <<" godz. ">> \o str_int(minuty) \o <<" min ">>
                 \o str_int(sek) \o <<" sek">>
        ELSE IF minuty > 0
        THEN str_int(minuty) \o <<" minut i ">> \o str_int(sek) \o <<" sekund">>
        ELSE str_int(sek) \o <<" sekund">>


(***************************************************************************)
(* The filesystem the program reads.  DirPath is an existing directory     *)
(* holding `tree`, FilePath an existing regular file, MissingPath does not *)
(* exist.  A file entry is [dir, file, lines, fault, okLines]: its         *)
(* directory relative to the walked root, its name, its lines as Python    *)
(* yields them (terminator included), and how reading it goes: fault       *)
(* "none", "open" (open() raises) or "read" (iteration raises after        *)
(* okLines lines were yielded).                                            *)
(***************************************************************************)
DirPath == "/data"
FilePath == "/data.txt"
MissingPath == "/nope"
TempNames == {"/tmp/tmp1", "/tmp/tmp2"}

\* os.path.exists
os_path_isdir(p) == p = DirPath \/ p \in tempdirs

os_path_exists(p) == p = DirPath \/ p = FilePath \/ p \in tempdirs

\* the (root, file) pairs os.walk(p) yields, as a set: the order is the
\* directory listing's.  A path that is not a directory yields nothing
\* (os.walk swallows the scandir error).
os_walk(p) ==
    IF p = DirPath THEN tree
    ELSE IF temp_dir = << p >> /\ p \in tempdirs THEN tempfiles
    ELSE {}

\* os.path.join(root, file), root being start_path plus the entry's directory
os_path_join(start_path, e) == [dir |-> << start_path >> \o e.dir, file |-> e.file]

\* os.path.basename
os_path_basename(sciezka) == sciezka.file

\* lines 59-65: the records of the first n lines of a file
RECURSIVE scan_lines_lstrip_only(_, _, _, _)
scan_lines_lstrip_only(sciezka, lines, fraza, n) ==
    IF n = 0 THEN <<>>
    ELSE LET rest == scan_lines_lstrip_only(sciezka, lines, fraza, n - 1)
         IN  IF contains(fraza, lines[n])
             THEN Append(rest, [sciezka |-> sciezka, nr_linii |-> n,
                                tresc |-> lstrip(lines[n])])
             ELSE rest

RECURSIVE scan_lines(_, _, _, _)
scan_lines(sciezka, lines, fraza, n) ==
    IF n = 0 THEN <<>>
    ELSE LET rest == scan_lines(sciezka, lines, fraza, n - 1)
         IN  IF contains(fraza, lines[n])
             THEN Append(rest, [sciezka |-> sciezka, nr_linii |-> n,
                                tresc |-> strip(lines[n])])
             ELSE rest

\* lines 57-69: what one file adds to znalezione; an exception raised by
\* open() or by the iteration is caught and the file abandoned
scan_file(sciezka, e, fraza) ==
    IF e.fault = "open" THEN <<>>
    ELSE scan_lines(sciezka, e.lines, fraza, e.okLines)

\* line 55: the extension filter
passes_filter_nocase(file, rozszerzenie) ==
    \/ endswith(file, rozszerzenie)
    \/ rozszerzenie = <<".", "t">> /\ endswith(file, <<".", "T">>)

passes_filter(file, rozszerzenie) == endswith(file, rozszerzenie)

NoExc == [type |-> "none", str |-> <<>>]

\* where control goes when przeszukaj_katalog raises or returns
after_raise(ep) ==
    IF ep = "katalog" THEN "raised"
    ELSE IF ep = "search" THEN "except" ELSE "cleanup"

after_return(ep) ==
    IF ep = "katalog" THEN "returned"
    ELSE IF ep = "search" THEN "respond" ELSE "rewrite"

(***************************************************************************)
(* przeszukaj_katalog, one action per step                                 *)
(***************************************************************************)
\* lines 48-53: the existence check, then os.walk starts
przeszukaj_katalog_enter ==
    /\ pc = "katalog"
    /\ entered' = entered + 1
    /\ znalezione' = <<>>
    /\ IF ~ os_path_exists(args.start_path)
       THEN /\ exc' = [type |-> "ValueError",
                       str |-> << "Sciezka nie istnieje: ", args.start_path >>]
            /\ pc' = after_raise(endpoint)
            /\ todo' = {}
       ELSE /\ exc' = exc
            /\ pc' = "walk"
            /\ todo' = os_walk(args.start_path)
    /\ UNCHANGED << endpoint, request, tree, tempdirs, temp_dir, tempfiles,
                    outside, i, args, opened, wyniki, response,
                    sekundy, czas >>

\* lines 66-69: the except clause ends in `continue`, so the walk goes on
\* with the files that are left
on_read_error_break(rest) == {}

on_read_error(rest) == rest

\* os.walk is top-down: the files of the root come before those below it
walk_next(e) ==
    /\ e \in todo
    /\ e.dir = <<>> \/ \A o \in todo : o.dir # <<>>

\* lines 54-69: one file of the walk
przeszukaj_katalog_file ==
    /\ pc = "walk"
    /\ \E e \in todo :
        /\ walk_next(e)
        /\ todo' = IF passes_filter(e.file, args.rozszerzenie) /\ e.fault # "none"
                    THEN on_read_error(todo \ {e})
                    ELSE todo \ {e}
        /\ IF passes_filter(e.file, args.rozszerzenie)
           THEN LET sciezka == os_path_join(args.start_path, e)
                IN  /\ opened' = opened \cup {sciezka}
                    /\ znalezione' = znalezione \o scan_file(sciezka, e, args.fraza)
           ELSE UNCHANGED << opened, znalezione >>
    /\ UNCHANGED << endpoint, request, tree, tempdirs, temp_dir, tempfiles,
                    outside, i, args, entered, exc, wyniki, response,
                    sekundy, czas, pc >>

\* line 71
przeszukaj_katalog_return ==
    /\ pc = "walk"
    /\ todo = {}
    /\ pc' = after_return(endpoint)
    /\ UNCHANGED << endpoint, request, tree, tempdirs, temp_dir, tempfiles,
                    outside, i, args, todo, znalezione, opened,
                    entered, exc, wyniki, response, sekundy, czas >>


(***************************************************************************)
(* Exceptions and responses                                                *)
(***************************************************************************)
\* Python's class hierarchy, as far as the except clauses test it:
\* HTTPException derives from Exception, not from ValueError
is_ValueError_never(e) == FALSE

is_ValueError(e) == e.type = "ValueError"

NoResponse ==
    [status_code |-> 0, detail |-> <<>>, wyniki |-> <<>>,
     czas_wyszukiwania |-> <<>>, liczba_znalezionych |-> 0, status |-> ""]

\* raise HTTPException(status_code, detail) leaving the handler
http_error(code, detail) ==
    [status_code |-> code, detail |-> detail, wyniki |-> <<>>,
     czas_wyszukiwania |-> <<>>, liczba_znalezionych |-> 0, status |-> ""]

\* lines 100-105 and 150-155: SearchResponse(...)
SearchResponse(w, c) ==
    [status_code |-> 200, detail |-> <<>>, wyniki |-> w,
     czas_wyszukiwania |-> c, liczba_znalezionych |-> Len(w), status |-> "sukces"]

\* end_time - start_time, in ticks: the clock is an input
ElapsedSamples == {Frac - 1, 125 * Frac}

(***************************************************************************)
(* search_files: POST /search                                              *)
(***************************************************************************)
\* lines 83-95: validation, then the call of przeszukaj_katalog
search_validate ==
    /\ pc = "start"
    /\ endpoint = "search"
    /\ IF strip(request.fraza) = <<>>
       THEN /\ exc' = [type |-> "HTTPException",
                       str |-> << "400: Fraza nie moze byc pusta" >>]
            /\ pc' = "except"
            /\ args' = args
       ELSE /\ args' = [start_path |-> request.start_path,
                        rozszerzenie |-> request.rozszerzenie,
                        fraza |-> request.fraza]
            /\ pc' = "katalog"
            /\ exc' = exc
    /\ UNCHANGED << endpoint, request, tree, tempdirs, temp_dir, tempfiles,
                    outside, i, todo, znalezione, opened, entered, wyniki,
                    response, sekundy, czas >>

\* lines 91, 97-105
search_respond ==
    /\ pc = "respond"
    /\ endpoint = "search"
    /\ \E t \in ElapsedSamples :
        /\ sekundy' = t
        /\ czas' = czytelny_czas(t)
    /\ wyniki' = znalezione
    /\ response' = SearchResponse(wyniki', czas')
    /\ pc' = "done"
    /\ UNCHANGED << endpoint, request, tree, tempdirs, temp_dir, tempfiles,
                    outside, i, args, todo, znalezione, opened, entered, exc >>

\* lines 107-110: the except clauses, tried in order
search_except ==
    /\ pc = "except"
    /\ endpoint = "search"
    /\ response' =
         IF is_ValueError(exc)
         THEN http_error(404, exc.str)
         ELSE http_error(500, << "Blad wewnetrzny: " >> \o exc.str)
    /\ pc' = "done"
    /\ UNCHANGED << endpoint, request, tree, tempdirs, temp_dir, tempfiles,
                    outside, i, args, todo, znalezione, opened, entered, exc,
                    wyniki, sekundy, czas >>

(***************************************************************************)
(* search_uploaded_files: POST /search-uploaded                            *)
(***************************************************************************)
\* the components of a file name, split at "/"
RECURSIVE path_parts(_)
path_parts(s) ==
    IF s = <<>> THEN << <<>> >>
    ELSE LET r == path_parts(Tail(s))
         IN  IF Head(s) = "/" THEN << <<>> >> \o r
             ELSE << << Head(s) >> \o r[1] >> \o Tail(r)

\* pathlib drops empty and "." components when joining
RECURSIVE drop_dots(_)
drop_dots(ps) ==
    IF ps = <<>> THEN <<>>
    ELSE IF Head(ps) \in { <<>>, <<".">> } THEN drop_dots(Tail(ps))
    ELSE << Head(ps) >> \o drop_dots(Tail(ps))

\* lines 135-136: where open(Path(temp_dir) / filename, "wb") lands.
\* temp_dir holds regular files only, so a path through a subdirectory of
\* it does not resolve; ".." and absolute names leave temp_dir.
stage_target(filename) ==
    LET ps == drop_dots(path_parts(filename))
    IN  IF filename # <<>> /\ Head(filename) = "/"
        THEN [kind |-> "outside", name |-> filename]
        ELSE IF ps = <<>> THEN [kind |-> "error", name |-> <<>>]
        ELSE IF Head(ps) = <<".", ".">>
        THEN IF Len(ps) = 1 THEN [kind |-> "error", name |-> <<>>]
             ELSE [kind |-> "outside", name |-> filename]
        ELSE IF Len(ps) = 1 THEN [kind |-> "inside", name |-> ps[1]]
        ELSE [kind |-> "error", name |-> <<>>]

\* line 134
upload_filter(filename, rozszerzenie) ==
    endswith(filename, rozszerzenie) \/ rozszerzenie = <<>>

\* tempfile.mkdtemp: a name that does not exist yet
mkdtemp == TempNames \ tempdirs

\* lines 126-131: entering the with block
upload_start ==
    /\ pc = "start"
    /\ endpoint = "uploaded"
    /\ wyniki' = <<>>
    /\ \E d \in mkdtemp :
        /\ temp_dir' = << d >>
        /\ tempdirs' = tempdirs \cup {d}
    /\ tempfiles' = {}
    /\ i' = 0
    /\ pc' = "stage"
    /\ UNCHANGED << endpoint, request, tree, outside, args, todo, znalezione,
                    opened, entered, exc, response, sekundy, czas >>

\* the entry a completed copy leaves in temp_dir
staged_entry(name, lines) ==
    [dir |-> <<>>, file |-> name, lines |-> lines, fault |-> "none",
     okLines |-> Len(lines)]

\* lines 133-137: one uploaded file of the staging loop
upload_stage ==
    /\ pc = "stage"
    /\ i < Len(request.files)
    /\ LET file == request.files[i + 1]
           tgt == stage_target(file.filename)
       IN  IF ~ upload_filter(file.filename, request.rozszerzenie)
           THEN /\ i' = i + 1
                /\ UNCHANGED << tempfiles, outside, exc, pc >>
           ELSE IF tgt.kind = "error"
           THEN /\ exc' = [type |-> "OSError", str |-> << "open: ", file.filename >>]
                /\ pc' = "cleanup"
                /\ UNCHANGED << tempfiles, outside, i >>
           ELSE IF tgt.kind = "outside"
           THEN \/ /\ outside' = outside \cup {tgt.name}
                   /\ i' = i + 1
                   /\ UNCHANGED << tempfiles, exc, pc >>
                \/ /\ exc' = [type |-> "OSError", str |-> << "open: ", file.filename >>]
                   /\ pc' = "cleanup"
                   /\ UNCHANGED << tempfiles, outside, i >>
           ELSE IF file.copyFails
           THEN /\ tempfiles' = {e \in tempfiles : e.file # tgt.name}
                                    \cup {staged_entry(tgt.name, <<>>)}
                /\ exc' = [type |-> "OSError", str |-> << "copy: ", file.filename >>]
                /\ pc' = "cleanup"
                /\ UNCHANGED << outside, i >>
           ELSE /\ tempfiles' = {e \in tempfiles : e.file # tgt.name}
                                    \cup {staged_entry(tgt.name, file.lines)}
                /\ i' = i + 1
                /\ UNCHANGED << outside, exc, pc >>
    /\ UNCHANGED << endpoint, request, tree, tempdirs, temp_dir, args, todo,
                    znalezione, opened, entered, wyniki, response, sekundy, czas >>

\* line 140: the staging loop is over, przeszukaj_katalog is called
upload_search ==
    /\ pc = "stage"
    /\ i = Len(request.files)
    /\ args' = [start_path |-> temp_dir[1],
                rozszerzenie |-> request.rozszerzenie,
                fraza |-> request.fraza]
    /\ pc' = "katalog"
    /\ UNCHANGED << endpoint, request, tree, tempdirs, temp_dir, tempfiles,
                    outside, i, todo, znalezione, opened, entered, exc, wyniki,
                    response, sekundy, czas >>

\* lines 143-145
RECURSIVE rewrite_paths_keep(_)
rewrite_paths_keep(ws) ==
    IF ws = <<>> THEN <<>>
    ELSE << [sciezka |-> Head(ws).sciezka, nr_linii |-> Head(ws).nr_linii,
             tresc |-> Head(ws).tresc] >> \o rewrite_paths_keep(Tail(ws))

RECURSIVE rewrite_paths(_)
rewrite_paths(ws) ==
    IF ws = <<>> THEN <<>>
    ELSE << [sciezka |-> [dir |-> <<>>, file |-> os_path_basename(Head(ws).sciezka)],
             nr_linii |-> Head(ws).nr_linii,
             tresc |-> Head(ws).tresc] >> \o rewrite_paths(Tail(ws))

upload_rewrite ==
    /\ pc = "rewrite"
    /\ wyniki' = wyniki \o rewrite_paths(znalezione)
    /\ pc' = "cleanup"
    /\ UNCHANGED << endpoint, request, tree, tempdirs, temp_dir, tempfiles,
                    outside, i, args, todo, znalezione, opened, entered, exc,
                    response, sekundy, czas >>

\* what TemporaryDirectory.__exit__ leaves on disk
cleanup_dirs_skip_on_error == IF exc.type = "none" THEN tempdirs \ {temp_dir[1]} ELSE tempdirs

cleanup_dirs == tempdirs \ {temp_dir[1]}

\* lines 131/146: leaving the with block, normally or by an exception
upload_cleanup ==
    /\ pc = "cleanup"
    /\ tempdirs' = cleanup_dirs
    /\ tempfiles' = IF temp_dir[1] \in tempdirs' THEN tempfiles ELSE {}
    /\ pc' = IF exc.type = "none" THEN "respond" ELSE "except"
    /\ UNCHANGED << endpoint, request, tree, temp_dir, outside, i, args, todo,
                    znalezione, opened, entered, exc, wyniki, response,
                    sekundy, czas >>

\* lines 147-155
upload_respond ==
    /\ pc = "respond"
    /\ endpoint = "uploaded"
    /\ \E t \in ElapsedSamples :
        /\ sekundy' = t
        /\ czas' = czytelny_czas(t)
    /\ response' = SearchResponse(wyniki, czas')
    /\ pc' = "done"
    /\ UNCHANGED << endpoint, request, tree, tempdirs, temp_dir, tempfiles,
                    outside, i, args, todo, znalezione, opened, entered, exc,
                    wyniki >>

\* lines 157-158
upload_except ==
    /\ pc = "except"
    /\ endpoint = "uploaded"
    /\ response' = http_error(500, << "Blad przetwarzania plikow: " >> \o exc.str)
    /\ pc' = "done"
    /\ UNCHANGED << endpoint, request, tree, tempdirs, temp_dir, tempfiles,
                    outside, i, args, todo, znalezione, opened, entered, exc,
                    wyniki, sekundy, czas >>

(***************************************************************************)
(* czytelny_czas called on its own                                         *)
(***************************************************************************)
czas_call ==
    /\ pc = "start"
    /\ endpoint = "czas"
    /\ czas' = czytelny_czas(sekundy)
    /\ pc' = "done"
    /\ UNCHANGED << endpoint, request, tree, tempdirs, temp_dir, tempfiles,
                    outside, i, args, todo, znalezione, opened, entered, exc,
                    wyniki, response, sekundy >>


(***************************************************************************)
(* Inputs                                                                  *)
(***************************************************************************)
StartPaths == {DirPath, FilePath, MissingPath}

Names == { <<"a", ".", "t">>, <<"b", ".", "T">> }
Dirs == { <<>>, <<"sub">> }
Exts == { <<>>, <<".", "t">>, <<".", "T">> }
Phrases == { <<"a">>, <<"a", " ", "a">>, <<>> }

\* contents and read behaviour of the files of a several-file tree
Bodies ==
    { [lines |-> << <<"a", "\n">>, <<"b", " ", "a", "\n">> >>, fault |-> "none", okLines |-> 2],
      [lines |-> << <<"a", "\n">>, <<"b", " ", "a", "\n">> >>, fault |-> "open", okLines |-> 0],
      [lines |-> << <<"a", "\n">>, <<"b", " ", "a", "\n">> >>, fault |-> "read", okLines |-> 1],
      [lines |-> << <<"b", "\n">> >>, fault |-> "none", okLines |-> 1] }

Entry(d, f, b) ==
    [dir |-> d, file |-> f, lines |-> b.lines, fault |-> b.fault, okLines |-> b.okLines]

EntryPool == { Entry(d, f, b) : d \in Dirs, f \in Names, b \in Bodies }

\* a directory holds one file per name
Trees ==
    { S \in SUBSET EntryPool :
        /\ Cardinality(S) <= MaxFiles
        /\ \A x \in S, y \in S : (x.dir = y.dir /\ x.file = y.file) => x = y }

\* one file whose content ranges over every sequence of up to MaxLines lines
LinePool ==
    { <<" ", "a", " ", "a", " ", "\n">>, <<"b", "\n">>, <<"A">>, <<"\t", "a", "\n">> }

Contents == UNION { [1..n -> LinePool] : n \in 0..MaxLines }

Faults(c) ==
    { [fault |-> "none", okLines |-> Len(c)], [fault |-> "open", okLines |-> 0] }
        \cup { [fault |-> "read", okLines |-> k] : k \in 0..Len(c) }

OneFileTrees ==
    UNION { { { [dir |-> <<>>, file |-> <<"a", ".", "t">>, lines |-> c,
                 fault |-> f.fault, okLines |-> f.okLines] } : f \in Faults(c) } :
            c \in Contents }

alpha == <<"a", "l", "p", "h", "a">>

AlphaTree ==
    { [dir |-> <<>>, file |-> <<"a", ".", "t">>,
       lines |-> << alpha \o <<"\n">>,
                    <<"b", "e", "t", "a", "\n">>,
                    alpha \o <<" ", "a", "g", "a", "i", "n">> >>,
       fault |-> "none", okLines |-> 3] }

NoArgs == [start_path |-> "", rozszerzenie |-> <<>>, fraza |-> <<>>]
NoRequest == [start_path |-> "", rozszerzenie |-> <<>>, fraza |-> <<>>, files |-> <<>>]

\* HTTP requests
HttpExts == { <<>>, <<".", "t">> }
HttpPhrases == { <<"a">>, <<>>, <<" ", "\t">> }

UploadPool ==
    { [filename |-> n, lines |-> l, copyFails |-> FALSE] :
        n \in { <<"a", ".", "t">>, <<"b", ".", "T">>,
                <<"s", "/", "a", ".", "t">>, <<".", ".", "/", "a", ".", "t">>,
                <<".", "/", "b", ".", "t">> },
        l \in { << <<"a", "\n">>, <<"b", " ", "a", "\n">> >>, << <<"b", "\n">> >> } }
      \cup { [filename |-> <<"a", ".", "t">>, lines |-> << <<"a", "\n">> >>,
              copyFails |-> TRUE] }

Uploads == UNION { [1..n -> UploadPool] : n \in 1..MaxUploads }

(***************************************************************************)
(* Specifications                                                          *)
(***************************************************************************)
Idle ==
    /\ temp_dir = <<>>
    /\ tempfiles = {}
    /\ outside = {}
    /\ i = 0
    /\ todo = {}
    /\ znalezione = <<>>
    /\ opened = {}
    /\ entered = 0
    /\ exc = NoExc
    /\ wyniki = <<>>
    /\ response = NoResponse
    /\ czas = <<>>

\* a request arrives at POST /search or POST /search-uploaded
Init ==
    /\ Idle
    /\ pc = "start"
    /\ args = NoArgs
    /\ sekundy = 0
    /\ \/ /\ endpoint = "search"
          /\ request \in [start_path : StartPaths, rozszerzenie : HttpExts,
                          fraza : HttpPhrases, files : { <<>> }]
          /\ tree \in Trees
          /\ tempdirs = {}
       \/ /\ endpoint = "uploaded"
          /\ request \in [start_path : {""}, rozszerzenie : HttpExts,
                          fraza : HttpPhrases, files : Uploads]
          /\ tree = {}
          /\ tempdirs \in { {}, {"/tmp/tmp1"} }

Next ==
    \/ search_validate
    \/ search_respond
    \/ search_except
    \/ upload_start
    \/ upload_stage
    \/ upload_search
    \/ upload_rewrite
    \/ upload_cleanup
    \/ upload_respond
    \/ upload_except
    \/ przeszukaj_katalog_enter
    \/ przeszukaj_katalog_file
    \/ przeszukaj_katalog_return

Spec == Init /\ [][Next]_vars

\* przeszukaj_katalog called directly
InitKatalog ==
    /\ Idle
    /\ endpoint = "katalog"
    /\ pc = "katalog"
    /\ request = NoRequest
    /\ sekundy = 0
    /\ tempdirs = {}
    /\ \/ /\ tree \in Trees \cup OneFileTrees
          /\ args \in [start_path : StartPaths, rozszerzenie : Exts, fraza : Phrases]
       \/ /\ tree = AlphaTree
          /\ args \in [start_path : {DirPath}, rozszerzenie : Exts, fraza : {alpha}]

NextKatalog ==
    \/ przeszukaj_katalog_enter
    \/ przeszukaj_katalog_file
    \/ przeszukaj_katalog_return

SpecKatalog == InitKatalog /\ [][NextKatalog]_vars

\* czytelny_czas called directly on every duration up to MaxSekundy
InitCzas ==
    /\ Idle
    /\ endpoint = "czas"
    /\ pc = "start"
    /\ request = NoRequest
    /\ args = NoArgs
    /\ tree = {}
    /\ tempdirs = {}
    /\ sekundy \in 0..(MaxSekundy * Frac + Frac - 1)

NextCzas == czas_call

SpecCzas == InitCzas /\ [][NextCzas]_vars


(***************************************************************************)
(* Properties                                                              *)
(***************************************************************************)
\* a phrase that is empty or consists only of whitespace
IsBlank(s) == \A k \in 1..Len(s) : s[k] \in Whitespace

\* t is l without its leading and trailing whitespace
IsStripOf(t, l) ==
    \E a \in 0..Len(l) :
        /\ a + Len(t) <= Len(l)
        /\ SubSeq(l, a + 1, a + Len(t)) = t
        /\ \A k \in 1..a : l[k] \in Whitespace
        /\ \A k \in (a + Len(t) + 1)..Len(l) : l[k] \in Whitespace
        /\ t = <<>> \/ (t[1] \notin Whitespace /\ t[Len(t)] \notin Whitespace)

\* the path przeszukaj_katalog reports for entry e of the walked directory
PathOf(e) == [dir |-> << args.start_path >> \o e.dir, file |-> e.file]

\* the records of znalezione that carry path p, in order
RecordsOf(p) == SelectSeq(znalezione, LAMBDA r : r.sciezka = p)

\* the part of a file name after its last "/"
BareName(fn) ==
    LET slashes == { k \in 1..Len(fn) : fn[k] = "/" }
    IN  IF slashes = {} THEN fn
        ELSE SubSeq(fn, (CHOOSE k \in slashes : \A m \in slashes : m <= k) + 1, Len(fn))

\* C1: every POST /search request with an empty or whitespace-only fraza is
\* answered with status 400, whatever start_path and rozszerzenie are.
C1_BlankPhraseIs400 ==
    (endpoint = "search" /\ pc = "done" /\ IsBlank(request.fraza))
        => response.status_code = 400

\* C2: on POST /search and POST /search-uploaded a request with an empty or
\* whitespace-only phrase never enters przeszukaj_katalog, never creates a
\* temporary directory, never stages a file and returns no match record.
C2_BlankPhraseNoFilesystem ==
    (endpoint \in {"search", "uploaded"} /\ IsBlank(request.fraza))
        => /\ entered = 0
           /\ temp_dir = <<>>
           /\ tempfiles = {}
           /\ opened = {}
           /\ response.wyniki = <<>>

\* the lines przeszukaj_katalog reads under the request's start_path
NoScannedLineMatches ==
    \A e \in os_walk(request.start_path) :
        (endswith(e.file, request.rozszerzenie) /\ e.fault # "open")
            => \A n \in 1..e.okLines : ~ contains(request.fraza, e.lines[n])

\* C3: POST /search with a non-blank phrase: a start_path that does not
\* exist gives 404 with a detail naming start_path, nothing walked and no
\* record; an existing start_path under which no scanned line contains the
\* phrase gives 200 with empty wyniki and liczba_znalezionych = 0.
C3_MissingIs404ZeroMatchesIs200 ==
    (endpoint = "search" /\ pc = "done" /\ ~ IsBlank(request.fraza))
        => /\ request.start_path = MissingPath
                => /\ response.status_code = 404
                   /\ \E k \in 1..Len(response.detail) :
                          response.detail[k] = request.start_path
                   /\ response.wyniki = <<>>
                   /\ opened = {}
           /\ (request.start_path \in {DirPath, FilePath} /\ NoScannedLineMatches)
                => /\ response.status_code = 200
                   /\ response.wyniki = <<>>
                   /\ response.liczba_znalezionych = 0
                   /\ response.status = "sukces"

C3_Witness ==
    /\ endpoint = "search"
    /\ pc = "done"
    /\ request.start_path = DirPath
    /\ ~ IsBlank(request.fraza)
    /\ opened # {}
    /\ NoScannedLineMatches
    /\ response.status_code = 200
    /\ response.wyniki = <<>>

\* C4 as stated: przeszukaj_katalog raises the path-not-found error whenever
\* start_path is not an existing directory, an existing regular file
\* included.
C4_RaisesUnlessDirectory ==
    (endpoint = "katalog" /\ pc # "katalog" /\ args.start_path # DirPath)
        => pc = "raised"

\* C4 amended: przeszukaj_katalog raises the path-not-found error, with
\* nothing opened and no result, exactly when start_path does not exist at
\* all; for an existing regular file it does not raise and returns an empty
\* result sequence.
C4_RaisesIffMissing ==
    (endpoint = "katalog" /\ pc # "katalog")
        => /\ args.start_path = MissingPath
                => /\ pc = "raised"
                   /\ exc.type = "ValueError"
                   /\ \E k \in 1..Len(exc.str) : exc.str[k] = args.start_path
                   /\ znalezione = <<>>
                   /\ opened = {}
           /\ args.start_path = FilePath
                => /\ pc # "raised"
                   /\ exc = NoExc
                   /\ znalezione = <<>>
                   /\ opened = {}
           /\ args.start_path = DirPath => pc # "raised"

C4_Witness ==
    /\ endpoint = "katalog"
    /\ pc = "returned"
    /\ args.start_path = FilePath
    /\ tree # {}
    /\ znalezione = <<>>


\* the files os.walk has already yielded in a direct call on DirPath
Walked == tree \ todo

\* C5: in przeszukaj_katalog a file whose name does not end with
\* rozszerzenie (case-sensitive suffix) is never opened and contributes no
\* record, whatever its lines hold; with rozszerzenie empty every
\* enumerated file is scanned.
C5_ExtensionFilter ==
    (endpoint = "katalog" /\ args.start_path = DirPath)
        => /\ \A e \in tree :
                ~ endswith(e.file, args.rozszerzenie)
                    => /\ PathOf(e) \notin opened
                       /\ RecordsOf(PathOf(e)) = <<>>
           /\ (args.rozszerzenie = <<>> /\ pc \in {"walk", "returned"})
                => \A e \in Walked : PathOf(e) \in opened
           /\ (args.rozszerzenie = <<>> /\ pc = "returned") => Walked = tree

C5_Witness ==
    /\ endpoint = "katalog"
    /\ pc = "returned"
    /\ args.start_path = DirPath
    /\ opened # {}
    /\ \E e \in tree :
        /\ ~ endswith(e.file, args.rozszerzenie)
        /\ e.fault = "none"
        /\ \E n \in 1..Len(e.lines) : contains(args.fraza, e.lines[n])
        /\ args.fraza # <<>>

\* C6: for every readable scanned file, znalezione holds exactly one record
\* per line containing the phrase as a case-sensitive literal substring
\* (one even when it occurs several times, none for other lines), with
\* nr_linii the 1-based index of the line and tresc the line stripped of
\* leading and trailing whitespace, in increasing line order; lines
\* "alpha", "beta", "alpha again" with phrase "alpha" give (1, "alpha") and
\* (3, "alpha again").
C6_OneRecordPerMatchingLine ==
    (endpoint = "katalog" /\ args.start_path = DirPath /\ pc \in {"walk", "returned"})
        => /\ \A e \in Walked :
                (e.fault = "none" /\ endswith(e.file, args.rozszerzenie))
                    => LET recs == RecordsOf(PathOf(e))
                       IN  /\ \A k \in 1..Len(recs) :
                                /\ recs[k].nr_linii \in 1..Len(e.lines)
                                /\ contains(args.fraza, e.lines[recs[k].nr_linii])
                                /\ IsStripOf(recs[k].tresc, e.lines[recs[k].nr_linii])
                           /\ \A n \in 1..Len(e.lines) :
                                Cardinality({ k \in 1..Len(recs) : recs[k].nr_linii = n })
                                    = IF contains(args.fraza, e.lines[n]) THEN 1 ELSE 0
                           /\ \A k \in 1..Len(recs), m \in 1..Len(recs) :
                                k < m => recs[k].nr_linii < recs[m].nr_linii
           /\ (tree = AlphaTree /\ pc = "returned" /\ args.fraza = alpha
                   /\ endswith(<<"a", ".", "t">>, args.rozszerzenie))
                => znalezione =
                     << [sciezka |-> [dir |-> << DirPath >>, file |-> <<"a", ".", "t">>],
                         nr_linii |-> 1, tresc |-> alpha],
                        [sciezka |-> [dir |-> << DirPath >>, file |-> <<"a", ".", "t">>],
                         nr_linii |-> 3,
                         tresc |-> alpha \o <<" ", "a", "g", "a", "i", "n">>] >>

C6_Witness ==
    /\ endpoint = "katalog"
    /\ pc = "returned"
    /\ args.fraza = <<"a">>
    /\ Len(znalezione) = 1
    /\ znalezione[1].nr_linii = 2
    /\ znalezione[1].tresc = <<"a", " ", "a">>

\* C7: a failure to open or read one file under an existing start_path is
\* not raised to the caller: the rest of that file is skipped, the walk
\* goes on through the remaining files, and the result holds every match of
\* every other readable file that passes the filter; przeszukaj_katalog
\* raises only for a missing start_path.
C7_UnreadableFileIsSkipped ==
    (endpoint = "katalog" /\ pc # "katalog")
        => /\ pc = "raised" => args.start_path = MissingPath
           /\ (pc = "returned" /\ args.start_path = DirPath)
                => /\ todo = {}
                   /\ \A e \in tree :
                        endswith(e.file, args.rozszerzenie)
                            => /\ PathOf(e) \in opened
                               /\ e.fault = "none"
                                    => \A n \in 1..Len(e.lines) :
                                         contains(args.fraza, e.lines[n])
                                            => \E k \in 1..Len(znalezione) :
                                                 /\ znalezione[k].sciezka = PathOf(e)
                                                 /\ znalezione[k].nr_linii = n
                               /\ e.fault = "open" => RecordsOf(PathOf(e)) = <<>>
                               /\ e.fault = "read"
                                    => \A k \in 1..Len(znalezione) :
                                         znalezione[k].sciezka = PathOf(e)
                                            => znalezione[k].nr_linii <= e.okLines

C7_Witness ==
    /\ endpoint = "katalog"
    /\ pc = "returned"
    /\ args.start_path = DirPath
    /\ \E e \in tree, o \in tree :
        /\ e.fault # "none"
        /\ endswith(e.file, args.rozszerzenie)
        /\ o.fault = "none"
        /\ RecordsOf(PathOf(o)) # <<>>

\* the uploaded files of the request that pass the extension filter
Accepted ==
    { k \in 1..Len(request.files) :
        \/ endswith(request.files[k].filename, request.rozszerzenie)
        \/ request.rozszerzenie = <<>> }

\* C8: for a POST /search-uploaded request that ends with status 200, only
\* uploaded files whose filename ends with rozszerzenie (all of them when it
\* is empty) are staged and scanned, no record comes from a file failing
\* the filter, and every record's sciezka is the bare name of an uploaded
\* file, with no directory component and nothing of the temporary path.
C8_UploadFilterAndBareNames ==
    endpoint = "uploaded"
        => /\ \A e \in tempfiles :
                \E k \in Accepted : BareName(request.files[k].filename) = e.file
           /\ \A p \in opened :
                \E k \in Accepted : BareName(request.files[k].filename) = p.file
           /\ (pc = "done" /\ response.status_code = 200)
                => \A j \in 1..Len(response.wyniki) :
                     LET r == response.wyniki[j]
                     IN  /\ r.sciezka.dir = <<>>
                         /\ \A c \in 1..Len(r.sciezka.file) : r.sciezka.file[c] # "/"
                         /\ \E k \in Accepted :
                              LET f == request.files[k]
                              IN  /\ BareName(f.filename) = r.sciezka.file
                                  /\ r.nr_linii \in 1..Len(f.lines)
                                  /\ contains(request.fraza, f.lines[r.nr_linii])
                                  /\ IsStripOf(r.tresc, f.lines[r.nr_linii])

C8_Witness ==
    /\ endpoint = "uploaded"
    /\ pc = "done"
    /\ response.status_code = 200
    /\ response.wyniki # <<>>
    /\ ~ IsBlank(request.fraza)
    /\ \E k \in 1..Len(request.files) :
        /\ k \notin Accepted
        /\ \E n \in 1..Len(request.files[k].lines) :
             contains(request.fraza, request.files[k].lines[n])

\* the with block of search_uploaded_files has been left
AfterWith == endpoint = "uploaded" /\ pc \in {"respond", "except", "done"}

\* C9: the temporary directory of a POST /search-uploaded request is a
\* directory that did not exist before the request created it, and it is
\* gone, with every file staged in it, once the handler has finished, on
\* every exit path: the 200 response, a failure while staging, a failure
\* during the search.
C9_TempDirUniqueAndRemoved ==
    /\ [](AfterWith
            => /\ temp_dir # <<>>
               /\ temp_dir[1] \notin tempdirs
               /\ tempfiles = {})
    /\ [][(temp_dir = <<>> /\ temp_dir' # <<>>)
            => /\ temp_dir'[1] \notin tempdirs
               /\ tempdirs' = tempdirs \cup {temp_dir'[1]}]_vars

C9_Witness ==
    /\ endpoint = "uploaded"
    /\ pc = "done"
    /\ response.status_code = 500
    /\ exc.type = "OSError"
    /\ i = 1
    /\ request.files[2].copyFails
    /\ tempdirs = {"/tmp/tmp1"}
    /\ temp_dir = << "/tmp/tmp2" >>

\* the string the three templates give for whole hours, minutes, seconds
Formatted(H, M, S) ==
    IF H > 0
    THEN str_int(H) \o <<" godz. ">> \o str_int(M) \o <<" min ">> \o str_int(S) \o <<" sek">>
    ELSE IF M > 0
    THEN str_int(M) \o <<" minut i ">> \o str_int(S) \o <<" sekund">>
    ELSE str_int(S) \o <<" sekund">>

\* the whole seconds of a duration of s ticks, no rounding up
WholeSeconds(s) == CHOOSE t \in 0..MaxSekundy : t * Frac <= s /\ s < (t + 1) * Frac

\* C10: czytelny_czas(s) truncates s to whole seconds t and, with
\* H = t div 3600, M = (t mod 3600) div 60, S = t mod 60, returns
\* "H godz. M min S sek" when H > 0, else "M minut i S sekund" when M > 0,
\* else "S sekund"; 45 -> "45 sekund", 125 -> "2 minut i 5 sekund",
\* 3725 -> "1 godz. 2 min 5 sek", any s < 1 -> "0 sekund".
C10_CzytelnyCzas ==
    (endpoint = "czas" /\ pc = "done")
        => LET t == WholeSeconds(sekundy)
               H == t \div 3600
               M == (t % 3600) \div 60
               S == t % 60
           IN  /\ M \in 0..59 /\ S \in 0..59
               /\ czas = Formatted(H, M, S)
               /\ sekundy = 45 * Frac => czas = <<"4", "5", " sekund">>
               /\ sekundy = 125 * Frac => czas = <<"2", " minut i ", "5", " sekund">>
               /\ sekundy = 3725 * Frac
                    => czas = <<"1", " godz. ", "2", " min ", "5", " sek">>
               /\ sekundy < Frac => czas = <<"0", " sekund">>

C10_Witness ==
    /\ endpoint = "czas"
    /\ pc = "done"
    /\ sekundy = 3725 * Frac + (Frac - 1)
    /\ czas = <<"1", " godz. ", "2", " min ", "5", " sek">>

=============================================================================
